---- MODULE Spec2Model ----
(***************************************************************************)
(* Supplier Performance Dashboard (src/supplier_dashboard.py).             *)
(*                                                                         *)
(* The script is one top-to-bottom run over an uploaded grid: load_data    *)
(* (header location, column renaming, numeric coercion, lead time), the    *)
(* sidebar filters, the per-product section, the per-vendor overview and   *)
(* the "wins" tally.  Text is a sequence of one-character strings, a       *)
(* missing value (NaN / NaT / None) is the empty sequence, and a number is *)
(* an exact fraction <<n, d>> in lowest terms (d > 0).                     *)
(***************************************************************************)
EXTENDS Integers, Sequences, FiniteSets, TLC

VARIABLES
    pc,           \* position of the script run
    grid,         \* the decoded upload: rows of text cells (header=None)
    header_row,   \* load_data's header_row (NoHeader = None)
    df_raw,       \* the frame load_data returns
    outcome,      \* "running", or how the run ended
    df_filtered,  \* df_raw after the sidebar filters
    sel_item,     \* the product picked in the selectbox (Todos = "Todos")
    prod_metrics, \* section 1 summary table
    metrics,      \* section 2 summary table
    items_left,   \* section 3: partitions still to visit
    wins          \* section 3: vendor -> number of partitions won

vars == <<pc, grid, header_row, df_raw, outcome, df_filtered, sel_item,
          prod_metrics, metrics, items_left, wins>>

----------------------------------------------------------------------------
(* Bounds of the model *)

MaxPre == 6       \* rows above the header in the locator grids
MaxRows == 3      \* data rows in the data grids
MaxVendors == 3   \* rows of the summary tables handed to the scorer alone

----------------------------------------------------------------------------
(* Text *)

NaN == <<>>

UpperAlpha ==
    <<"A","B","C","D","E","F","G","H","I","J","K","L","M",
      "N","O","P","Q","R","S","T","U","V","W","X","Y","Z">>

LowerAlpha ==
    <<"a","b","c","d","e","f","g","h","i","j","k","l","m",
      "n","o","p","q","r","s","t","u","v","w","x","y","z">>

Digits == <<"0","1","2","3","4","5","6","7","8","9">>

LowerChar(c) ==
    IF \E i \in 1..26 : UpperAlpha[i] = c
    THEN LowerAlpha[CHOOSE i \in 1..26 : UpperAlpha[i] = c]
    ELSE c

ToLower(s) == [i \in 1..Len(s) |-> LowerChar(s[i])]

RECURSIVE LStrip(_)
LStrip(s) == IF s # <<>> /\ Head(s) = " " THEN LStrip(Tail(s)) ELSE s

RECURSIVE RStrip(_)
RStrip(s) ==
    IF s # <<>> /\ s[Len(s)] = " " THEN RStrip(SubSeq(s, 1, Len(s) - 1)) ELSE s

Strip(s) == RStrip(LStrip(s))

Contains(s, pat) ==
    \E i \in 0..(Len(s) - Len(pat)) : SubSeq(s, i + 1, i + Len(pat)) = pat

\* Character order used to sort text (upper case before lower case).
CharOrd(c) ==
    IF \E i \in 1..10 : Digits[i] = c THEN CHOOSE i \in 1..10 : Digits[i] = c
    ELSE IF \E i \in 1..26 : UpperAlpha[i] = c
    THEN 10 + (CHOOSE i \in 1..26 : UpperAlpha[i] = c)
    ELSE IF \E i \in 1..26 : LowerAlpha[i] = c
    THEN 40 + (CHOOSE i \in 1..26 : LowerAlpha[i] = c)
    ELSE 0

RECURSIVE TextLess(_, _)
TextLess(a, b) ==
    IF b = <<>> THEN FALSE
    ELSE IF a = <<>> THEN TRUE
    ELSE IF CharOrd(Head(a)) # CharOrd(Head(b))
    THEN CharOrd(Head(a)) < CharOrd(Head(b))
    ELSE TextLess(Tail(a), Tail(b))

\* astype(str): a missing cell prints as "nan".
nan == <<"n", "a", "n">>
AsStr(c) == IF c = NaN THEN nan ELSE c

----------------------------------------------------------------------------
(* Exact numbers *)

Abs(n) == IF n < 0 THEN -n ELSE n
Min2(a, b) == IF a < b THEN a ELSE b

RECURSIVE GCD(_, _)
GCD(a, b) == IF b = 0 THEN a ELSE GCD(b, a % b)

Frac(n, d) ==
    LET s == IF d < 0 THEN -1 ELSE 1
        g == GCD(Abs(n), Abs(d))
    IN  <<(s * n) \div g, (s * d) \div g>>

Num(n) == <<n, 1>>
IsNaN(v) == v = NaN

RAdd(a, b) == Frac(a[1] * b[2] + b[1] * a[2], a[2] * b[2])
RSub(a, b) == Frac(a[1] * b[2] - b[1] * a[2], a[2] * b[2])
RMul(a, b) == Frac(a[1] * b[1], a[2] * b[2])
RDiv(a, b) == Frac(a[1] * b[2], a[2] * b[1])
RLess(a, b) == a[1] * b[2] < b[1] * a[2]
RLeq(a, b) == a[1] * b[2] <= b[1] * a[2]

\* Arithmetic and comparisons with NaN: NaN propagates, every comparison
\* with NaN is False.
NAdd(a, b) == IF IsNaN(a) \/ IsNaN(b) THEN NaN ELSE RAdd(a, b)
NSub(a, b) == IF IsNaN(a) \/ IsNaN(b) THEN NaN ELSE RSub(a, b)
NMul(a, b) == IF IsNaN(a) \/ IsNaN(b) THEN NaN ELSE RMul(a, b)
NDiv(a, b) == IF IsNaN(a) \/ IsNaN(b) THEN NaN ELSE RDiv(a, b)
NGreater(a, b) == ~IsNaN(a) /\ ~IsNaN(b) /\ RLess(b, a)
NGeq(a, b) == ~IsNaN(a) /\ ~IsNaN(b) /\ RLeq(b, a)
NLeq(a, b) == ~IsNaN(a) /\ ~IsNaN(b) /\ RLeq(a, b)

Range(s) == {s[i] : i \in 1..Len(s)}

\* Series.min() / Series.max(): NaN is skipped; NaN when nothing is left.
SetMin(S) ==
    LET P == {v \in S : ~IsNaN(v)}
    IN  IF P = {} THEN NaN ELSE CHOOSE v \in P : \A w \in P : RLeq(v, w)

SetMax(S) ==
    LET P == {v \in S : ~IsNaN(v)}
    IN  IF P = {} THEN NaN ELSE CHOOSE v \in P : \A w \in P : RLeq(w, v)

RECURSIVE SeqSum(_)
SeqSum(s) == IF s = <<>> THEN Num(0) ELSE RAdd(Head(s), SeqSum(Tail(s)))

\* mean of a column of a group: over the non-missing values, NaN if none.
Mean(s) ==
    LET p == SelectSeq(s, LAMBDA v : ~IsNaN(v))
    IN  IF p = <<>> THEN NaN ELSE RDiv(SeqSum(p), Num(Len(p)))

\* sum of a column of a group: missing values are skipped.
Sum(s) == SeqSum(SelectSeq(s, LAMBDA v : ~IsNaN(v)))

\* count of a column of a group: the number of non-missing values.
Count(s) == Num(Len(SelectSeq(s, LAMBDA v : ~IsNaN(v))))

----------------------------------------------------------------------------
(* Column labels *)

\* The keys of rename_map (lower case) ...
k_vendor_name == <<"v","e","n","d","o","r"," ","n","a","m","e">>
k_vendor == <<"v","e","n","d","o","r">>
k_vendor_no == <<"v","e","n","d","o","r"," ","n","o",".">>
k_order_no == <<"o","r","d","e","r"," ","n","o",".">>
k_item_no == <<"i","t","e","m"," ","n","o",".">>
k_item_description ==
    <<"i","t","e","m"," ","d","e","s","c","r","i","p","t","i","o","n">>
k_item_cost == <<"i","t","e","m"," ","c","o","s","t">>
k_quantity == <<"q","u","a","n","t","i","t","y">>
k_cost_per_order == <<"c","o","s","t"," ","p","e","r"," ","o","r","d","e","r">>
k_ap_terms == <<"a","/","p"," ","t","e","r","m","s">>
k_order_date == <<"o","r","d","e","r"," ","d","a","t","e">>
k_arrival_date == <<"a","r","r","i","v","a","l"," ","d","a","t","e">>

\* ... and the canonical names they map to.
Vendor == <<"V","e","n","d","o","r">>
VendorNo == <<"V","e","n","d","o","r"," ","N","o">>
Order == <<"O","r","d","e","r">>
ItemNo == <<"I","t","e","m"," ","N","o">>
Item == <<"I","t","e","m">>
ItemCost == <<"I","t","e","m"," ","C","o","s","t">>
Quantity == <<"Q","u","a","n","t","i","t","y">>
CostPerOrder == <<"C","o","s","t"," ","p","e","r"," ","o","r","d","e","r">>
APTerms == <<"A","P"," ","T","e","r","m","s">>
OrderDate == <<"O","r","d","e","r"," ","D","a","t","e">>
ArrivalDate == <<"A","r","r","i","v","a","l"," ","D","a","t","e">>
LeadTime == <<"L","e","a","d"," ","T","i","m","e">>

rename_map ==
    { <<k_vendor_name, Vendor>>, <<k_vendor, Vendor>>,
      <<k_vendor_no, VendorNo>>, <<k_order_no, Order>>,
      <<k_item_no, ItemNo>>, <<k_item_description, Item>>,
      <<k_item_cost, ItemCost>>, <<k_quantity, Quantity>>,
      <<k_cost_per_order, CostPerOrder>>, <<k_ap_terms, APTerms>>,
      <<k_order_date, OrderDate>>, <<k_arrival_date, ArrivalDate>> }

\* rename_map.get(x.lower(), x)
Rename(x) ==
    LET k == ToLower(x)
    IN  IF \E p \in rename_map : p[1] = k
        THEN (CHOOSE p \in rename_map : p[1] = k)[2]
        ELSE x

----------------------------------------------------------------------------
(* Frames: cols is the sequence of column labels, rows the sequence of     *)
(* rows, each a sequence of cells aligned with cols.                       *)

EmptyFrame == [cols |-> <<>>, rows |-> <<>>]

HasCol(df, c) == \E i \in 1..Len(df.cols) : df.cols[i] = c
ColIx(df, c) == CHOOSE i \in 1..Len(df.cols) : df.cols[i] = c
Cell(df, row, c) == row[ColIx(df, c)]
Column(df, c) == [r \in 1..Len(df.rows) |-> Cell(df, df.rows[r], c)]

\* df[c] = F(df[c]), cell by cell
MapCol(df, c, F(_)) ==
    LET i == ColIx(df, c)
    IN  [cols |-> df.cols,
         rows |-> [r \in 1..Len(df.rows) |->
                     [k \in 1..Len(df.rows[r]) |->
                        IF k = i THEN F(df.rows[r][k]) ELSE df.rows[r][k]]]]

\* df[df.apply(Keep)]
FilterRows(df, Keep(_)) == [cols |-> df.cols, rows |-> SelectSeq(df.rows, Keep)]

----------------------------------------------------------------------------
(* load_data *)

ScanWindow == 5
NoHeader == -1

\* df.iloc[i].astype(str).str.contains("Vendor", case=False).any()
RowHasVendor(row) ==
    \E j \in 1..Len(row) : Contains(ToLower(AsStr(row[j])), k_vendor)

\* Mutant of ScanFrom: the loop without its break keeps the last match.
RECURSIVE ScanFromLast(_, _)
ScanFromLast(g, i) ==
    IF i >= Min2(ScanWindow, Len(g)) THEN NoHeader
    ELSE LET rest == ScanFromLast(g, i + 1)
         IN  IF rest # NoHeader THEN rest
             ELSE IF RowHasVendor(g[i + 1]) THEN i
             ELSE NoHeader

\* for i in range(min(5, len(df))): ... header_row = i; break
RECURSIVE ScanFrom(_, _)
ScanFrom(g, i) ==
    IF i >= Min2(ScanWindow, Len(g)) THEN NoHeader
    ELSE IF RowHasVendor(g[i + 1]) THEN i
    ELSE ScanFrom(g, i + 1)

\* Mutant of HeaderLocator: row 0 taken as the header when none is found.
HeaderLocatorFallback(g) ==
    IF ScanFrom(g, 0) = NoHeader /\ Len(g) > 0 THEN 0 ELSE ScanFrom(g, 0)

HeaderLocator(g) == ScanFrom(g, 0)

\* Steps 3-4: labels from the header row, rows below it, canonical names,
\* all-empty rows dropped.
SchemaNormalizer(g, h) ==
    LET labels == [j \in 1..Len(g[h + 1]) |->
                     Rename(Strip(Strip(AsStr(g[h + 1][j]))))]
        below  == SubSeq(g, h + 2, Len(g))
    IN  [cols |-> labels,
         rows |-> SelectSeq(below,
                    LAMBDA row : \E j \in 1..Len(row) : row[j] # NaN)]

IsDigits(s) == s # <<>> /\ \A i \in 1..Len(s) : \E d \in 1..10 : Digits[d] = s[i]
DigitVal(c) == (CHOOSE d \in 1..10 : Digits[d] = c) - 1

RECURSIVE DecVal(_)
DecVal(s) ==
    IF s = <<>> THEN 0
    ELSE 10 * DecVal(SubSeq(s, 1, Len(s) - 1)) + DigitVal(s[Len(s)])

\* pd.to_numeric(errors="coerce") on the cell texts of the grids: a string
\* of digits is its value, anything else (missing included) is NaN.
ToNumeric(c) == IF IsDigits(c) THEN Num(DecVal(c)) ELSE NaN

\* pd.to_datetime(errors="coerce") on the cell texts of the grids: an ISO
\* date of January 2024 is its day number, anything else is NaT.
datePrefix == <<"2","0","2","4","-","0","1","-">>
ToDatetime(c) ==
    IF /\ Len(c) = 10
       /\ SubSeq(c, 1, 8) = datePrefix
       /\ IsDigits(SubSeq(c, 9, 10))
       /\ DecVal(SubSeq(c, 9, 10)) \in 1..31
    THEN Num(DecVal(SubSeq(c, 9, 10)))
    ELSE NaN

NumericCols == <<ItemCost, Quantity, CostPerOrder, APTerms>>

RECURSIVE CoerceNumeric(_, _)
CoerceNumeric(df, i) ==
    IF i > Len(NumericCols) THEN df
    ELSE IF HasCol(df, NumericCols[i])
    THEN CoerceNumeric(MapCol(df, NumericCols[i], ToNumeric), i + 1)
    ELSE CoerceNumeric(df, i + 1)

\* Mutant of LeadDays: the negative differences are kept.
LeadDaysSigned(order, arrival) == NSub(arrival, order)

\* (arrival - order).dt.days, negative values overwritten with NaN
LeadDays(order, arrival) ==
    LET d == NSub(arrival, order)
    IN  IF ~IsNaN(d) /\ RLess(d, Num(0)) THEN NaN ELSE d

\* Step 6: both date columns parsed and Lead Time appended, or the frame
\* left as it is when either is absent.
DerivedFieldCalculator(df) ==
    IF HasCol(df, OrderDate) /\ HasCol(df, ArrivalDate)
    THEN LET p == MapCol(MapCol(df, OrderDate, ToDatetime),
                         ArrivalDate, ToDatetime)
         IN  [cols |-> Append(p.cols, LeadTime),
              rows |-> [r \in 1..Len(p.rows) |->
                          Append(p.rows[r],
                                 LeadDays(Cell(p, p.rows[r], OrderDate),
                                          Cell(p, p.rows[r], ArrivalDate)))]]
    ELSE df

\* The frame load_data returns once a header row is found.
load_data(g, h) ==
    DerivedFieldCalculator(CoerceNumeric(SchemaNormalizer(g, h), 1))

----------------------------------------------------------------------------
(* Summary tables: cols is the set of column names, rows the sequence of   *)
(* rows, each a function from cols to values.                              *)

NoTable == [cols |-> {}, rows |-> <<>>]

ScoredCols ==
    << <<"Avg_Lead_Days", "Norm_Lead">>,
       <<"Avg_Item_Cost", "Norm_Cost">>,
       <<"Avg_AP_Terms", "Norm_AP">> >>

W_Lead == Frac(4, 10)
W_Cost == Frac(4, 10)
W_AP == Frac(2, 10)

\* Mutant of NormColumn: no max > min guard, so a flat column divides 0 by 0.
NormColumnNoGuard(t, col) ==
    IF col \in t.cols
    THEN LET min_val == SetMin({t.rows[i][col] : i \in 1..Len(t.rows)})
             max_val == SetMax({t.rows[i][col] : i \in 1..Len(t.rows)})
         IN  [i \in 1..Len(t.rows) |->
                 IF NGreater(max_val, min_val)
                 THEN NDiv(NSub(t.rows[i][col], min_val), NSub(max_val, min_val))
                 ELSE NaN]
    ELSE [i \in 1..Len(t.rows) |-> Num(0)]

\* One pass of add_composite's loop: the normalized column for `col`.
NormColumn(t, col) ==
    IF col \in t.cols
    THEN LET min_val == SetMin({t.rows[i][col] : i \in 1..Len(t.rows)})
             max_val == SetMax({t.rows[i][col] : i \in 1..Len(t.rows)})
         IN  IF NGreater(max_val, min_val)
             THEN [i \in 1..Len(t.rows) |->
                     NDiv(NSub(t.rows[i][col], min_val), NSub(max_val, min_val))]
             ELSE [i \in 1..Len(t.rows) |-> Num(0)]
    ELSE [i \in 1..Len(t.rows) |-> Num(0)]

\* Mutant of CompositeScore: the AP term inverted like the other two.
CompositeScoreAllInverted(nl, nc, na) ==
    NAdd(NAdd(NMul(NSub(Num(1), nl), W_Lead), NMul(NSub(Num(1), nc), W_Cost)),
         NMul(NSub(Num(1), na), W_AP))

\* (1 - Norm_Lead) * 0.4 + (1 - Norm_Cost) * 0.4 + Norm_AP * 0.2
CompositeScore(nl, nc, na) ==
    NAdd(NAdd(NMul(NSub(Num(1), nl), W_Lead), NMul(NSub(Num(1), nc), W_Cost)),
         NMul(na, W_AP))

add_composite(t) ==
    IF Len(t.rows) = 0
    THEN [cols |-> t.cols \cup {"Composite_Score"}, rows |-> <<>>]
    ELSE LET nl == NormColumn(t, ScoredCols[1][1])
             nc == NormColumn(t, ScoredCols[2][1])
             na == NormColumn(t, ScoredCols[3][1])
             added == {"Norm_Lead", "Norm_Cost", "Norm_AP", "Composite_Score"}
         IN  [cols |-> t.cols \cup added,
              rows |-> [i \in 1..Len(t.rows) |->
                  [c \in t.cols \cup added |->
                      IF c = "Norm_Lead" THEN nl[i]
                      ELSE IF c = "Norm_Cost" THEN nc[i]
                      ELSE IF c = "Norm_AP" THEN na[i]
                      ELSE IF c = "Composite_Score"
                      THEN CompositeScore(nl[i], nc[i], na[i])
                      ELSE t.rows[i][c]]]]

----------------------------------------------------------------------------
(* Metric aggregation *)

RECURSIVE SortTexts(_)
SortTexts(S) ==
    IF S = {} THEN <<>>
    ELSE LET m == CHOOSE x \in S : \A y \in S \ {x} : TextLess(x, y)
         IN  <<m>> \o SortTexts(S \ {m})

\* Series.dropna().unique(): the distinct non-missing values in order of
\* first appearance.
RECURSIVE Unique(_)
Unique(s) ==
    IF s = <<>> THEN <<>>
    ELSE LET front == Unique(SubSeq(s, 1, Len(s) - 1))
             x == s[Len(s)]
         IN  IF x = NaN \/ x \in Range(front) THEN front ELSE Append(front, x)

\* The keys of groupby("Vendor"): missing keys dropped, keys sorted.
GroupKeys(df) == SortTexts(Range(Column(df, Vendor)) \ {NaN})

GroupOf(df, v) ==
    FilterRows(df, LAMBDA row : Cell(df, row, Vendor) = v)

Agg(how, s) ==
    IF how = "count" THEN Count(s)
    ELSE IF how = "mean" THEN Mean(s)
    ELSE Sum(s)

\* agg_dict entries <<column, aggregation, renamed column>> for the columns
\* the frame has.
AggFor(df, candidates) == {a \in candidates : HasCol(df, a[1])}

MeanAggs ==
    { <<LeadTime, "mean", "Avg_Lead_Days">>,
      <<APTerms, "mean", "Avg_AP_Terms">>,
      <<ItemCost, "mean", "Avg_Item_Cost">> }

SpendAgg == { <<CostPerOrder, "sum", "Total_Spend">> }
OrderAgg == { <<Order, "count", "Orders">> }

\* df.groupby("Vendor").agg(agg_dict).reset_index(), the columns renamed,
\* and the three Avg_ columns that are absent added as 0.
GroupByAgg(df, aggs) ==
    LET keys == GroupKeys(df)
        named == {a[3] : a \in aggs}
        cols == {"Vendor"} \cup named
                  \cup {"Avg_Lead_Days", "Avg_AP_Terms", "Avg_Item_Cost"}
    IN  [cols |-> cols,
         rows |-> [i \in 1..Len(keys) |->
             [c \in cols |->
                 IF c = "Vendor" THEN keys[i]
                 ELSE IF c \in named
                 THEN LET a == CHOOSE a \in aggs : a[3] = c
                      IN  Agg(a[2], Column(GroupOf(df, keys[i]), a[1]))
                 ELSE Num(0)]]]

\* sort_values("Composite_Score", ascending=False): NaN last, equal scores
\* in their former order.
ScoreBefore(a, b) ==
    \/ NGreater(a["Composite_Score"], b["Composite_Score"])
    \/ ~IsNaN(a["Composite_Score"]) /\ IsNaN(b["Composite_Score"])

RECURSIVE InsertByScore(_, _)
InsertByScore(sorted, x) ==
    IF sorted = <<>> THEN <<x>>
    ELSE IF ScoreBefore(x, Head(sorted)) THEN <<x>> \o sorted
    ELSE <<Head(sorted)>> \o InsertByScore(Tail(sorted), x)

RECURSIVE SortByScore(_)
SortByScore(rows) ==
    IF rows = <<>> THEN <<>>
    ELSE InsertByScore(SortByScore(SubSeq(rows, 1, Len(rows) - 1)),
                       rows[Len(rows)])

\* Section 1: prod_metrics for the rows of one product.
ProductSummary(df_product) ==
    LET t == add_composite(
                GroupByAgg(df_product,
                    OrderAgg \cup AggFor(df_product, MeanAggs \cup SpendAgg)))
    IN  [cols |-> t.cols, rows |-> SortByScore(t.rows)]

\* Section 2: metrics for the filtered rows.
OverviewSummary(df) ==
    add_composite(GroupByAgg(df, OrderAgg \cup AggFor(df, MeanAggs \cup SpendAgg)))

\* Section 3: m for the rows of one partition.
PartitionSummary(grp) ==
    add_composite(GroupByAgg(grp, AggFor(grp, MeanAggs)))

\* m["Composite_Score"].idxmax(): the first row holding the greatest
\* non-missing score; 0 when every score is missing.
IdxMax(t) ==
    LET S == {i \in 1..Len(t.rows) : ~IsNaN(t.rows[i]["Composite_Score"])}
    IN  IF S = {} THEN 0
        ELSE CHOOSE i \in S :
               /\ \A j \in S : RLeq(t.rows[j]["Composite_Score"],
                                    t.rows[i]["Composite_Score"])
               /\ \A j \in S : j < i =>
                     RLess(t.rows[j]["Composite_Score"],
                           t.rows[i]["Composite_Score"])

----------------------------------------------------------------------------
(* The uploads the model draws from                                        *)

h_VendorName == <<" ","V","e","n","d","o","r"," ","N","a","m","e"," ">>
h_ORDERNO == <<"O","R","D","E","R"," ","N","O",".">>
h_ItemCost == <<"I","t","e","m"," ","C","o","s","t">>
h_vendor == <<"v","e","n","d","o","r">>
h_orderno == <<"o","r","d","e","r"," ","n","o",".">>
h_itemdesc == <<"I","t","e","m"," ","D","e","s","c","r","i","p","t","i","o","n">>
h_orderdate == <<"O","r","d","e","r"," ","D","a","t","e">>
h_arrivaldate == <<"a","r","r","i","v","a","l"," ","d","a","t","e"," ">>
h_VENDOR == <<"V","E","N","D","O","R">>
h_ItemNo == <<"I","t","e","m"," ","N","o",".">>
h_AP == <<"A","/","P"," ","T","e","r","m","s">>
h_cpo == <<"C","o","s","t"," ","p","e","r"," ","o","r","d","e","r">>
t_title == <<"L","i","s","t"," ","o","f"," ","V","E","N","D","O","R","S">>
t_junk == <<"R","e","p","o","r","t">>
d03 == <<"2","0","2","4","-","0","1","-","0","3">>
d05 == <<"2","0","2","4","-","0","1","-","0","5">>
d15 == <<"2","0","2","4","-","0","1","-","1","5">>

HdrCost == <<h_VendorName, h_ORDERNO, h_ItemCost>>
HdrDates == <<h_vendor, h_orderno, h_itemdesc, h_orderdate, h_arrivaldate>>
HdrTerms == <<h_VENDOR, h_orderno, h_ItemNo, h_ItemCost, h_AP, h_cpo>>
HdrNoOrder == <<h_VENDOR, h_ItemNo>>

RowsCost ==
    {<<v, o, c>> : v \in {NaN, <<"A">>, <<"B">>}, o \in {NaN, <<"1">>},
                   c \in {<<"5">>, <<"1","0">>}}

RowsDates ==
    {<<v, <<"1">>, i, d05, a>> : v \in {<<"A">>, <<"B">>},
                                 i \in {NaN, <<"P">>, <<"Q">>},
                                 a \in {d03, d05, d15}}

RowsTerms ==
    {<<v, <<"1">>, <<"P">>, c, t, s>> :
        v \in {<<"A">>, <<"B">>}, c \in {<<"x">>, <<"5">>},
        t \in {<<"3","0">>, <<"6","0">>}, s \in {NaN, <<"2","0">>}}

RowsNoOrder == {<<v, i>> : v \in {<<"A">>, <<"B">>}, i \in {<<"P">>, <<"Q">>}}

RECURSIVE Enum(_)
Enum(S) == IF S = {} THEN <<>>
           ELSE LET x == CHOOSE x \in S : TRUE IN <<x>> \o Enum(S \ {x})

\* The sequences of exactly k elements of the sequence e, taken in the
\* order of e from index `from` on (one sequence per multiset).
RECURSIVE SortedSeqs(_, _, _)
SortedSeqs(e, from, k) ==
    IF k = 0 THEN {<<>>}
    ELSE UNION {{<<e[i]>> \o t : t \in SortedSeqs(e, i, k - 1)} :
                  i \in from..Len(e)}

\* The row sequences of at most n rows over S, one per multiset of rows.
RowSeqs(S, n) ==
    UNION {SortedSeqs(e, 1, k) : e \in {Enum(S)}, k \in 0..n}

DataGrids ==
    {<<HdrCost>> \o rows : rows \in RowSeqs(RowsCost, MaxRows)}
    \cup {<<HdrDates>> \o rows : rows \in RowSeqs(RowsDates, MaxRows)}
    \cup {<<HdrTerms>> \o rows : rows \in RowSeqs(RowsTerms, MaxRows)}
    \cup {<<HdrNoOrder>> \o rows : rows \in RowSeqs(RowsNoOrder, MaxRows)}

\* Rows above the header: a banner row, or a title row that mentions
\* vendors.
JunkRow == <<t_junk, NaN, NaN, NaN, NaN>>
TitleRow == <<t_title, NaN, NaN, NaN, NaN>>
EmptyRow == <<NaN, NaN, NaN, NaN, NaN>>

Preambles == UNION {[1..k -> {JunkRow, TitleRow}] : k \in 0..MaxPre}

LocatorRows ==
    { <<<<"A">>, <<"1">>, <<"P">>, d05, d15>>,
      <<<<"A">>, <<"1">>, <<"P">>, d15, d05>>,
      <<<<"B">>, NaN, <<"P">>, <<"s","o","o","n">>, d05>>,
      EmptyRow }

Bodies ==
    {<<>>} \cup {<<HdrDates>> \o rows :
                   rows \in UNION {[1..k -> LocatorRows] : k \in 0..2}}

LocatorGrids == {pre \o body : pre \in Preambles, body \in Bodies}

Grids == DataGrids \cup LocatorGrids

----------------------------------------------------------------------------
(* The script run *)

Todos == <<"T","o","d","o","s">>

\* How a run that stopped reported it: st.error or st.warning before
\* st.stop(), or an uncaught exception.
Severity(o) ==
    IF o \in {"HeaderNotFound", "NoValidData", "NoSuppliers"} THEN "error"
    ELSE IF o = "EmptyFiltered" THEN "warning"
    ELSE IF o = "exception" THEN "exception"
    ELSE "none"

Init ==
    /\ pc = "start"
    /\ grid \in Grids
    /\ header_row = NoHeader
    /\ df_raw = EmptyFrame
    /\ outcome = "running"
    /\ df_filtered = EmptyFrame
    /\ sel_item = NaN
    /\ prod_metrics = NoTable
    /\ metrics = NoTable
    /\ items_left = <<>>
    /\ wins = <<>>

Stop(o) == pc' = "stopped" /\ outcome' = o

\* df_raw = load_data(uploaded_file)
LoadData ==
    /\ pc = "start"
    /\ header_row' = HeaderLocator(grid)
    /\ IF header_row' = NoHeader
       THEN Stop("HeaderNotFound") /\ UNCHANGED df_raw
       ELSE /\ df_raw' = load_data(grid, header_row')
            /\ pc' = "loaded"
            /\ UNCHANGED outcome
    /\ UNCHANGED <<grid, df_filtered, sel_item, prod_metrics, metrics,
                   items_left, wins>>

\* sorted(df_raw["Vendor"].dropna().unique())
Suppliers(df) == Range(Column(df, Vendor)) \ {NaN}

\* The checks between load_data and the sidebar filters.
CheckData ==
    /\ pc = "loaded"
    /\ IF Len(df_raw.rows) = 0 THEN Stop("NoValidData")
       ELSE IF ~HasCol(df_raw, Vendor) THEN Stop("exception")
       ELSE IF Suppliers(df_raw) = {} THEN Stop("NoSuppliers")
       ELSE pc' = "filters" /\ UNCHANGED outcome
    /\ UNCHANGED <<grid, header_row, df_raw, df_filtered, sel_item,
                   prod_metrics, metrics, items_left, wins>>

\* slide_range: the <<lo, hi>> pairs a slider of the column can return;
\* <<NaN, NaN>> is (None, None).
slide_range(df, col) ==
    IF ~HasCol(df, col) THEN {<<NaN, NaN>>}
    ELSE LET values == Range(Column(df, col)) \ {NaN}
         IN  IF values = {} THEN {<<NaN, NaN>>}
             ELSE {<<lo, hi>> \in values \X values : RLeq(lo, hi)}

\* df_filtered[(df_filtered[col] >= lo) & (df_filtered[col] <= hi)]
RangeFilter(df, col, r) ==
    IF r[1] # NaN /\ HasCol(df, col)
    THEN FilterRows(df, LAMBDA row :
            NGeq(Cell(df, row, col), r[1]) /\ NLeq(Cell(df, row, col), r[2]))
    ELSE df

\* Mutant of VendorFilter: the rows without a vendor pass the filter.
VendorFilterKeepMissing(df, sel_suppliers) ==
    FilterRows(df, LAMBDA row :
        Cell(df, row, Vendor) \in sel_suppliers \cup {NaN})

VendorFilter(df, sel_suppliers) ==
    FilterRows(df, LAMBDA row : Cell(df, row, Vendor) \in sel_suppliers)

Filtered(df, sel_suppliers, lt, ap, cost) ==
    RangeFilter(RangeFilter(RangeFilter(VendorFilter(df, sel_suppliers),
                                        LeadTime, lt),
                            APTerms, ap),
                ItemCost, cost)

\* The sidebar selections and the filters applied with them.
ApplyFilters ==
    /\ pc = "filters"
    /\ \E sel_suppliers \in SUBSET Suppliers(df_raw),
          lt \in slide_range(df_raw, LeadTime),
          ap \in slide_range(df_raw, APTerms),
          cost \in slide_range(df_raw, ItemCost) :
          df_filtered' = Filtered(df_raw, sel_suppliers, lt, ap, cost)
    /\ IF Len(df_filtered'.rows) = 0
       THEN Stop("EmptyFiltered")
       ELSE pc' = "product" /\ UNCHANGED outcome
    /\ UNCHANGED <<grid, header_row, df_raw, sel_item, prod_metrics, metrics,
                   items_left, wins>>

\* item_col; NaN is None.
ItemCol(df) ==
    IF HasCol(df, Item) THEN Item
    ELSE IF HasCol(df, ItemNo) THEN ItemNo
    ELSE NaN

ItemsOf(df) ==
    IF ItemCol(df) = NaN THEN <<>> ELSE Unique(Column(df, ItemCol(df)))

\* df_filtered[df_filtered[item_col] == itm]
Partition(df, itm) ==
    FilterRows(df, LAMBDA row : Cell(df, row, ItemCol(df)) = itm)

\* The product selectbox and section 1.
SelectProduct ==
    /\ pc = "product"
    /\ \E choice \in {Todos} \cup Range(ItemsOf(df_filtered)) :
          /\ sel_item' = choice
          /\ IF choice # Todos /\ ItemCol(df_filtered) # NaN
                /\ Len(Partition(df_filtered, choice).rows) > 0
             THEN IF HasCol(df_filtered, Order)
                  THEN /\ prod_metrics' =
                            ProductSummary(Partition(df_filtered, choice))
                       /\ pc' = "overview"
                       /\ UNCHANGED outcome
                  ELSE Stop("exception") /\ UNCHANGED prod_metrics
             ELSE pc' = "overview" /\ UNCHANGED <<outcome, prod_metrics>>
    /\ UNCHANGED <<grid, header_row, df_raw, df_filtered, metrics,
                   items_left, wins>>

\* Section 2.
Overview ==
    /\ pc = "overview"
    /\ IF HasCol(df_filtered, Order)
       THEN /\ metrics' = OverviewSummary(df_filtered)
            /\ pc' = "section3"
            /\ UNCHANGED outcome
       ELSE Stop("exception") /\ UNCHANGED metrics
    /\ UNCHANGED <<grid, header_row, df_raw, df_filtered, sel_item,
                   prod_metrics, items_left, wins>>

\* Section 3 is entered only with a product column and lead times.
StartWins ==
    /\ pc = "section3"
    /\ IF ItemCol(df_filtered) # NaN /\ HasCol(df_filtered, LeadTime)
       THEN /\ items_left' = ItemsOf(df_filtered)
            /\ pc' = "wins"
            /\ UNCHANGED outcome
       ELSE /\ pc' = "done"
            /\ outcome' = "done"
            /\ UNCHANGED items_left
    /\ UNCHANGED <<grid, header_row, df_raw, df_filtered, sel_item,
                   prod_metrics, metrics, wins>>

\* Mutant of Tally: a win recorded as 1 instead of counted up.
TallyNoIncrement(w, winner) ==
    [v \in DOMAIN w \cup {winner} |-> IF v = winner THEN 1 ELSE w[v]]

\* wins[winner] = wins.get(winner, 0) + 1
Tally(w, winner) ==
    [v \in DOMAIN w \cup {winner} |->
        IF v = winner
        THEN (IF winner \in DOMAIN w THEN w[winner] ELSE 0) + 1
        ELSE w[v]]

\* One pass of the loop over the products.
WinsStep ==
    /\ pc = "wins"
    /\ items_left # <<>>
    /\ LET m == PartitionSummary(Partition(df_filtered, Head(items_left)))
       IN  IF Len(m.rows) > 0 /\ "Composite_Score" \in m.cols
           THEN IF IdxMax(m) = 0
                THEN Stop("exception") /\ UNCHANGED <<wins, items_left>>
                ELSE /\ wins' = Tally(wins, m.rows[IdxMax(m)]["Vendor"])
                     /\ items_left' = Tail(items_left)
                     /\ UNCHANGED <<pc, outcome>>
           ELSE /\ items_left' = Tail(items_left)
                /\ UNCHANGED <<pc, outcome, wins>>
    /\ UNCHANGED <<grid, header_row, df_raw, df_filtered, sel_item,
                   prod_metrics, metrics>>

\* The loop is over; the rest of the script only displays.
FinishWins ==
    /\ pc = "wins"
    /\ items_left = <<>>
    /\ pc' = "done"
    /\ outcome' = "done"
    /\ UNCHANGED <<grid, header_row, df_raw, df_filtered, sel_item,
                   prod_metrics, metrics, items_left, wins>>

Next ==
    \/ LoadData
    \/ CheckData
    \/ ApplyFilters
    \/ SelectProduct
    \/ Overview
    \/ StartWins
    \/ WinsStep
    \/ FinishWins

Spec == Init /\ [][Next]_vars

----------------------------------------------------------------------------
(* The scorer on its own: add_composite applied to a summary table         *)

MetricValues(c) ==
    IF c = "Avg_Lead_Days" THEN {NaN, Num(5), Num(7), Num(10)}
    ELSE IF c = "Avg_Item_Cost" THEN {NaN, Num(5), Num(10)}
    ELSE {Num(30), Num(60)}

AllMetricValues ==
    UNION {MetricValues(c) : c \in {"Avg_Lead_Days", "Avg_Item_Cost", "Avg_AP_Terms"}}

\* The summary tables of at most MaxVendors vendors over the columns P.
TablesOver(P) ==
    LET S == {f \in [P -> AllMetricValues] : \A c \in P : f[c] \in MetricValues(c)}
    IN  {[cols |-> {"Vendor"} \cup P,
          rows |-> [i \in 1..Len(rs) |->
                      [c \in {"Vendor"} \cup P |->
                          IF c = "Vendor" THEN <<UpperAlpha[i]>> ELSE rs[i][c]]]] :
           rs \in RowSeqs(S, MaxVendors)}

\* The averages a summary table may carry: any of the three scored columns.
ColumnSets ==
    SUBSET {"Avg_Lead_Days", "Avg_Item_Cost", "Avg_AP_Terms"}

InitScorer ==
    /\ pc = "table"
    /\ \E P \in ColumnSets : metrics \in TablesOver(P)
    /\ grid = <<>>
    /\ header_row = NoHeader
    /\ df_raw = EmptyFrame
    /\ outcome = "running"
    /\ df_filtered = EmptyFrame
    /\ sel_item = NaN
    /\ prod_metrics = NoTable
    /\ items_left = <<>>
    /\ wins = <<>>

ScoreTable ==
    /\ pc = "table"
    /\ metrics' = add_composite(metrics)
    /\ pc' = "scored"
    /\ UNCHANGED <<grid, header_row, df_raw, outcome, df_filtered, sel_item,
                   prod_metrics, items_left, wins>>

NextScorer == ScoreTable

SpecScorer == InitScorer /\ [][NextScorer]_vars

----------------------------------------------------------------------------
(* Properties *)

\* The rows of a grid with a cell that contains "vendor" in any case.
VendorRows(g) ==
    {i \in 0..(Len(g) - 1) :
        \E j \in 1..Len(g[i + 1]) :
            Contains(ToLower(AsStr(g[i + 1][j])), k_vendor)}

Loaded == pc # "start" /\ pc # "table" /\ pc # "scored"

\* C1: once load_data has run on a grid with a "vendor" row among rows
\* 0..min(5, rowCount)-1, header_row is the lowest such row; a row of index
\* 5 or more is never returned.
C1_LowestVendorRow ==
    Loaded =>
        LET W == {i \in VendorRows(grid) : i < 5}
        IN  /\ header_row < 5
            /\ W # {} => header_row \in W /\ \A j \in W : header_row <= j

\* A run whose header is not row 0 and has a later "vendor" row in the
\* window.
C1_Witness ==
    /\ Loaded
    /\ header_row >= 1
    /\ \E j \in VendorRows(grid) : header_row < j /\ j < 5

\* C2: on a grid with no "vendor" row among its first 5 rows the run stops
\* with HeaderNotFound, no header row is chosen and no later stage has
\* produced anything.
C2_HeaderNotFoundStops ==
    (Loaded /\ ~\E i \in VendorRows(grid) : i < 5) =>
        /\ outcome = "HeaderNotFound"
        /\ pc = "stopped"
        /\ header_row = NoHeader
        /\ df_raw = EmptyFrame
        /\ df_filtered = EmptyFrame
        /\ sel_item = NaN
        /\ prod_metrics = NoTable
        /\ metrics = NoTable
        /\ items_left = <<>>
        /\ wins = <<>>

\* A stopped run whose only "vendor" row is row 5.
C2_Witness ==
    /\ outcome = "HeaderNotFound"
    /\ VendorRows(grid) # {}
    /\ \A i \in VendorRows(grid) : i >= 5

Present(t, c) == {t.rows[i][c] : i \in 1..Len(t.rows)} \ {NaN}
Lowest(P) == CHOOSE v \in P : \A w \in P : RLeq(v, w)
Highest(P) == CHOOSE v \in P : \A w \in P : RLeq(w, v)

\* Column n of table t is the min-max normalization of its column c.
IsNormOf(t, c, n) ==
    \A i \in 1..Len(t.rows) :
        IF c \notin t.cols \/ Cardinality(Present(t, c)) < 2
        THEN t.rows[i][n] = Num(0)
        ELSE t.rows[i][c] # NaN =>
                RMul(t.rows[i][n],
                     RSub(Highest(Present(t, c)), Lowest(Present(t, c))))
                  = RSub(t.rows[i][c], Lowest(Present(t, c)))

\* 10 * score = 4 * (1 - norm_lead) + 4 * (1 - norm_cost) + 2 * norm_ap
IsCompositeOf(r) ==
    (r["Norm_Lead"] # NaN /\ r["Norm_Cost"] # NaN /\ r["Norm_AP"] # NaN) =>
        /\ r["Composite_Score"] # NaN
        /\ RMul(Num(10), r["Composite_Score"])
             = RAdd(RAdd(RMul(Num(4), RSub(Num(1), r["Norm_Lead"])),
                         RMul(Num(4), RSub(Num(1), r["Norm_Cost"]))),
                    RMul(Num(2), r["Norm_AP"]))

IsVendorRow(r, lead, cost, ap) ==
    /\ {"Avg_Lead_Days", "Avg_Item_Cost", "Avg_AP_Terms"} \subseteq DOMAIN r
    /\ r["Avg_Lead_Days"] = Num(lead)
    /\ r["Avg_Item_Cost"] = Num(cost)
    /\ r["Avg_AP_Terms"] = Num(ap)

\* C3: a scored non-empty table holds, for each scored column, its min-max
\* normalization (0 for a flat or absent column), every row's score is
\* 0.4*(1-norm_lead) + 0.4*(1-norm_cost) + 0.2*norm_ap, and the table of
\* A(5, 10, 30) and B(10, 5, 60) scores A 0.4 and B 0.6.
C3_CompositeFormula ==
    (pc = "scored" /\ Len(metrics.rows) > 0) =>
        /\ IsNormOf(metrics, "Avg_Lead_Days", "Norm_Lead")
        /\ IsNormOf(metrics, "Avg_Item_Cost", "Norm_Cost")
        /\ IsNormOf(metrics, "Avg_AP_Terms", "Norm_AP")
        /\ \A i \in 1..Len(metrics.rows) : IsCompositeOf(metrics.rows[i])
        /\ Len(metrics.rows) = 2 =>
             \A i, j \in 1..2 :
                (/\ IsVendorRow(metrics.rows[i], 5, 10, 30)
                 /\ IsVendorRow(metrics.rows[j], 10, 5, 60)) =>
                    /\ metrics.rows[i]["Composite_Score"] = Frac(4, 10)
                    /\ metrics.rows[j]["Composite_Score"] = Frac(6, 10)

\* The scored table of the two vendors A(5, 10, 30) and B(10, 5, 60).
C3_Witness ==
    /\ pc = "scored"
    /\ Len(metrics.rows) = 2
    /\ \E i, j \in 1..2 :
          /\ IsVendorRow(metrics.rows[i], 5, 10, 30)
          /\ IsVendorRow(metrics.rows[j], 10, 5, 60)

SoleVendor ==
    /\ Loaded
    /\ metrics # NoTable
    /\ Cardinality(Suppliers(df_filtered)) = 1

\* C5 as stated: the sole vendor of a subset scores 0.4.
C5_SoleVendorScoresFourTenths ==
    SoleVendor =>
        /\ Len(metrics.rows) = 1
        /\ metrics.rows[1]["Composite_Score"] = Frac(4, 10)

\* C5 (amended): the summary of a subset with exactly one vendor has one
\* row, its three normalized terms are 0 and its score is 0.8.
C5_SoleVendorScore ==
    SoleVendor =>
        /\ Len(metrics.rows) = 1
        /\ metrics.rows[1]["Norm_Lead"] = Num(0)
        /\ metrics.rows[1]["Norm_Cost"] = Num(0)
        /\ metrics.rows[1]["Norm_AP"] = Num(0)
        /\ metrics.rows[1]["Composite_Score"] = Frac(8, 10)

\* A finished run over several records of one vendor.
C5_Witness ==
    /\ pc = "done"
    /\ SoleVendor
    /\ Len(df_filtered.rows) >= 2

\* The vendors of the filtered rows of product itm.
PartitionVendors(itm) ==
    {df_filtered.rows[r][ColIx(df_filtered, Vendor)] :
        r \in {q \in 1..Len(df_filtered.rows) :
                 df_filtered.rows[q][ColIx(df_filtered, ItemCol(df_filtered))] = itm}}
      \ {NaN}

RECURSIVE SumWins(_)
SumWins(w) ==
    IF DOMAIN w = {} THEN 0
    ELSE LET v == CHOOSE v \in DOMAIN w : TRUE
         IN  w[v] + SumWins([u \in DOMAIN w \ {v} |-> w[u]])

C6_Step ==
    (pc = "wins" /\ items_left # <<>>) =>
        /\ outcome' = "running"
        /\ LET V == PartitionVendors(Head(items_left))
           IN  IF V = {} THEN wins' = wins
               ELSE \E v \in V :
                      /\ DOMAIN wins' = DOMAIN wins \cup {v}
                      /\ wins'[v] = (IF v \in DOMAIN wins THEN wins[v] ELSE 0) + 1
                      /\ \A u \in DOMAIN wins \ {v} : wins'[u] = wins[u]

C6_Total ==
    (pc = "wins" /\ pc' = "done") =>
        SumWins(wins) =
            Cardinality({itm \in Range(ItemsOf(df_filtered)) :
                           PartitionVendors(itm) # {}})

\* C6: every pass of the selector's loop succeeds and adds exactly one win,
\* to a vendor of the partition visited (none for a partition without
\* vendor rows), and when the loop ends the wins add up to the number of
\* partitions that have vendor rows.
C6_SelectorTally == [][C6_Step /\ C6_Total]_vars

\* A finished tally over two products won by the same vendor.
C6_Witness ==
    /\ pc = "done"
    /\ Len(ItemsOf(df_filtered)) = 2
    /\ \E v \in DOMAIN wins : wins[v] = 2

RowsOfVendor(df, v) ==
    {r \in 1..Len(df.rows) : df.rows[r][ColIx(df, Vendor)] = v}

\* C7: order_count of every vendor group, in the overview and in the
\* per-product table, is the number of records of the group.
C7_OrderCountIsGroupSize ==
    /\ \A i \in 1..Len(metrics.rows) :
          (Loaded /\ "Orders" \in metrics.cols) =>
             metrics.rows[i]["Orders"] =
                Num(Cardinality(RowsOfVendor(df_filtered, metrics.rows[i]["Vendor"])))
    /\ \A i \in 1..Len(prod_metrics.rows) :
          prod_metrics.rows[i]["Orders"] =
             Num(Cardinality(
                 {r \in RowsOfVendor(df_filtered, prod_metrics.rows[i]["Vendor"]) :
                    df_filtered.rows[r][ColIx(df_filtered, ItemCol(df_filtered))]
                      = sel_item}))

TableVendors(t) == {t.rows[i]["Vendor"] : i \in 1..Len(t.rows)}

\* The vendors the upload names.
NamedVendors == IF HasCol(df_raw, Vendor) THEN Suppliers(df_raw) ELSE {}

\* C8: no summary table has a row keyed by a missing (empty) vendor, no win
\* is tallied for one, and the filtered rows every summary is computed from
\* hold no record without a vendor.
C8_NoVendorlessRecords ==
    Loaded =>
        /\ NaN \notin TableVendors(metrics)
        /\ NaN \notin TableVendors(prod_metrics)
        /\ NaN \notin DOMAIN wins
        /\ \A r \in 1..Len(df_filtered.rows) :
              df_filtered.rows[r][ColIx(df_filtered, Vendor)] # NaN
        /\ TableVendors(metrics) \subseteq NamedVendors
        /\ TableVendors(prod_metrics) \subseteq NamedVendors
        /\ DOMAIN wins \subseteq NamedVendors

\* A finished run over an upload that has a record without a vendor.
C8_Witness ==
    /\ pc = "done"
    /\ NaN \in Range(Column(df_raw, Vendor))
    /\ Len(metrics.rows) >= 1

NothingAggregated ==
    /\ prod_metrics = NoTable
    /\ metrics = NoTable
    /\ items_left = <<>>
    /\ wins = <<>>

\* Filters that left no record end the run with the warning, nothing
\* aggregated.
C9_AfterFilters ==
    (Loaded /\ pc \notin {"loaded", "filters"} /\ header_row # NoHeader
        /\ Len(df_raw.rows) > 0 /\ HasCol(df_raw, Vendor)
        /\ Suppliers(df_raw) # {} /\ Len(df_filtered.rows) = 0) =>
       /\ pc = "stopped"
       /\ outcome = "EmptyFiltered"
       /\ Severity(outcome) = "warning"
       /\ NothingAggregated

\* A load that left no data row ends the run in a state that is not the
\* error state, nothing aggregated.
C9_AfterLoad ==
    (Loaded /\ pc # "loaded" /\ header_row # NoHeader
        /\ Len(df_raw.rows) = 0) =>
       /\ pc = "stopped"
       /\ Severity(outcome) \notin {"error", "exception"}
       /\ NothingAggregated

\* C9: filters that leave no record, and a load that leaves no data row,
\* both end the run in an empty-result state that is not the error state,
\* with nothing aggregated, scored or tallied.
C9_EmptyIsNotAnError == C9_AfterFilters /\ C9_AfterLoad

\* The data rows of the grid: those below the header that are not empty
\* throughout.
DataRows ==
    SelectSeq(SubSeq(grid, header_row + 2, Len(grid)),
              LAMBDA row : \E j \in 1..Len(row) : row[j] # NaN)

NonNegativeLead(df) ==
    HasCol(df, LeadTime) =>
        \A r \in 1..Len(df.rows) :
            \/ Cell(df, df.rows[r], LeadTime) = NaN
            \/ RLeq(Num(0), Cell(df, df.rows[r], LeadTime))

====
